---- MODULE Spec2Model ----
(***************************************************************************)
(* Model of src/main.py: the HEX colour extractor (HEX_REGEX,              *)
(* find_hex_colors), the reporter (generate_report) and the command-line   *)
(* driver (main) with its source loaders and the embedded self-tests.      *)
(*                                                                         *)
(* A Python str is modelled as a sequence of one-character strings.        *)
(***************************************************************************)
EXTENDS Integers, Sequences, FiniteSets, TLC

VARIABLES
    text,         \* the argument of find_hex_colors
    matches,      \* HEX_REGEX.findall(text)                (main.py:30)
    found,        \* the list find_hex_colors returns       (main.py:36)
    report,       \* the string generate_report returns     (main.py:64)
    pc,           \* position of the extractor/reporter pipeline
    args,         \* argparse namespace of main             (main.py:74)
    source_text,  \* main's local source_text               (main.py:82)
    stdout,       \* what main printed, one entry per print call
    calls,        \* log of the loader / extractor calls main's run made
    tests_failed, \* number of self-tests that failed or errored
    exit_code,    \* exit status of the process (-1 while running)
    mpc           \* position of main

vars == <<text, matches, found, report, pc, args, source_text, stdout, calls,
          tests_failed, exit_code, mpc>>

(***************************************************************************)
(* Bounds of the model.                                                    *)
(***************************************************************************)
\* at most this many pieces are concatenated to build an input text
MaxPieces == 5
\* at most this many sample tokens are joined to build an input text
MaxTokens == 4
\* at most this many distinct palette tokens are joined to build an input text
MaxPalette == 12

(***************************************************************************)
(* Characters.                                                             *)
(***************************************************************************)
\* the character class [0-9A-Fa-f] of HEX_REGEX
HexDigits ==
    {"0", "1", "2", "3", "4", "5", "6", "7", "8", "9",
     "A", "B", "C", "D", "E", "F", "a", "b", "c", "d", "e", "f"}

\* the character class [0-9A-Fa-f#] of the lookbehind
LookbehindClass == HexDigits \cup {"#"}

\* variant: the pattern without its 8-digit alternative
AlternativesNoEight == <<3, 4, 6>>

\* the alternatives (?:H{3}|H{4}|H{6}|H{8}) in the order the pattern lists them
Alternatives == <<3, 4, 6, 8>>

(***************************************************************************)
(* HEX_REGEX, as the backtracking engine runs it.                          *)
(***************************************************************************)
\* text[from .. from+n-1] exists and consists of hex digits: [0-9A-Fa-f]{n}
HexN(s, from, n) ==
    /\ from + n - 1 <= Len(s)
    /\ \A k \in from .. (from + n - 1) : s[k] \in HexDigits

\* [A-Za-z0-9_], the characters on the word side of a \b
WordChars ==
    HexDigits \cup
    {"G", "H", "I", "J", "K", "L", "M", "N", "O", "P", "Q", "R", "S", "T", "U",
     "V", "W", "X", "Y", "Z", "g", "h", "i", "j", "k", "l", "m", "n", "o", "p",
     "q", "r", "s", "t", "u", "v", "w", "x", "y", "z", "_"}

\* variant: the lookbehind class without '#'
LookbehindNoHash(s, pos) == pos = 1 \/ s[pos - 1] \notin HexDigits

\* variant: the \b# of the pattern quoted in the module docstring (line 10)
LookbehindWordBoundary(s, pos) == pos > 1 /\ s[pos - 1] \in WordChars

\* (?<![0-9A-Fa-f#]) at position pos: no character before, or one outside the class
Lookbehind(s, pos) == pos = 1 \/ s[pos - 1] \notin LookbehindClass

\* variant: the pattern without its trailing lookahead
LookaheadNone(s, pos) == TRUE

\* (?![0-9A-Fa-f]) at position pos: end of text, or a character that is no hex digit

Lookahead(s, pos) == pos > Len(s) \/ s[pos] \notin HexDigits

\* alternative number a matches at the '#' at pos and the lookahead after it holds
AltMatches(s, pos, a) ==
    /\ HexN(s, pos + 1, Alternatives[a])
    /\ Lookahead(s, pos + 1 + Alternatives[a])

\* The match attempt at pos: 0 when the pattern does not match there, otherwise
\* the number of hex digits of the first alternative (in pattern order) that
\* lets the whole pattern succeed.
MatchAt(s, pos) ==
    IF ~(Lookbehind(s, pos) /\ s[pos] = "#") THEN 0
    ELSE IF \E a \in 1..Len(Alternatives) : AltMatches(s, pos, a)
         THEN Alternatives[CHOOSE a \in 1..Len(Alternatives) :
                               /\ AltMatches(s, pos, a)
                               /\ \A b \in 1..(a - 1) : ~AltMatches(s, pos, b)]
         ELSE 0

\* The scan of findall/finditer: non-overlapping matches, left to right; after a
\* match the scan resumes at its end, otherwise one character further.
RECURSIVE ScanFrom(_, _)
ScanFrom(s, pos) ==
    IF pos > Len(s) THEN <<>>
    ELSE LET n == MatchAt(s, pos) IN
         IF n > 0 THEN <<[start |-> pos, digits |-> n]>> \o ScanFrom(s, pos + n + 1)
                  ELSE ScanFrom(s, pos + 1)

\* the match objects of HEX_REGEX over s
HEX_REGEX_finditer(s) == ScanFrom(s, 1)

\* HEX_REGEX.findall(s): the matched substrings (the pattern has no capture group)
HEX_REGEX_findall(s) ==
    LET it == HEX_REGEX_finditer(s) IN
    [k \in 1..Len(it) |-> SubSeq(s, it[k].start, it[k].start + it[k].digits)]

(***************************************************************************)
(* find_hex_colors: findall, then the order-preserving dict of seen keys.  *)
(***************************************************************************)
InSeq(x, sq) == \E k \in 1..Len(sq) : sq[k] = x

\* variant: a repeated token moves to the end (last occurrence wins)
RECURSIVE SeenLoopLast(_, _)
SeenLoopLast(ms, seen) ==
    IF ms = <<>> THEN seen
    ELSE SeenLoopLast(Tail(ms),
             Append(SelectSeq(seen, LAMBDA k : k # Head(ms)), Head(ms)))

\* the for loop of lines 33-35; seen is the insertion-ordered list of dict keys
RECURSIVE SeenLoop(_, _)
SeenLoop(ms, seen) ==
    IF ms = <<>> THEN seen
    ELSE SeenLoop(Tail(ms),
                  IF InSeq(Head(ms), seen) THEN seen ELSE Append(seen, Head(ms)))

find_hex_colors(s) == SeenLoop(HEX_REGEX_findall(s), <<>>)

(***************************************************************************)
(* generate_report.                                                        *)
(***************************************************************************)
\* A character outside ASCII is written by its code point, "U+041E".
\* "Отчет по найденным HEX-цветам:" (line 56)
HeaderLine ==
    <<"U+041E", "U+0442", "U+0447", "U+0435", "U+0442", " ", "U+043F", "U+043E",
      " ", "U+043D", "U+0430", "U+0439", "U+0434", "U+0435", "U+043D", "U+043D",
      "U+044B", "U+043C", " ", "H", "E", "X", "-", "U+0446", "U+0432", "U+0435",
      "U+0442", "U+0430", "U+043C", ":">>

\* "  Цвета не найдены." (line 58)
NoneFoundLine ==
    <<" ", " ", "U+0426", "U+0432", "U+0435", "U+0442", "U+0430", " ", "U+043D",
      "U+0435", " ", "U+043D", "U+0430", "U+0439", "U+0434", "U+0435", "U+043D",
      "U+044B", ".">>

\* " — " and " символов" of the f-string of line 63
DashPart == <<" ", "U+2014", " ">>
SymbolsPart ==
    <<" ", "U+0441", "U+0438", "U+043C", "U+0432", "U+043E", "U+043B", "U+043E",
      "U+0432">>

DecimalDigits == <<"0", "1", "2", "3", "4", "5", "6", "7", "8", "9">>

\* str(n) of a non-negative int, as the f-string formats {i} and {length}
RECURSIVE str_int(_)
str_int(n) ==
    IF n < 10 THEN <<DecimalDigits[n + 1]>>
    ELSE str_int(n \div 10) \o <<DecimalDigits[(n % 10) + 1]>>

\* variant: the '#' is counted too
LengthWithHash(c) == Len(c)

\* len(c) - 1 of line 62

LengthNoHash(c) == Len(c) - 1

\* the first number enumerate(found, 1) yields
EnumerateStart == 1

\* f"  {i}. {fmt} — {length} символов" (lines 61-63)
ItemLine(i, c) ==
    <<" ", " ">> \o str_int(i) \o <<".", " ">> \o c \o DashPart
        \o str_int(LengthNoHash(c)) \o SymbolsPart

\* "\n".join(lines)
RECURSIVE JoinWith(_, _)
JoinWith(sep, lines) ==
    IF lines = <<>> THEN <<>>
    ELSE IF Len(lines) = 1 THEN lines[1]
    ELSE lines[1] \o sep \o JoinWith(sep, Tail(lines))

generate_report(fnd) ==
    LET lines ==
            IF fnd = <<>>
            THEN <<HeaderLine, NoneFoundLine>>
            ELSE <<HeaderLine>> \o
                 [k \in 1..Len(fnd) |-> ItemLine(k - 1 + EnumerateStart, fnd[k])]
    IN JoinWith(<<"\n">>, lines)

(***************************************************************************)
(* Input texts of the extractor.                                           *)
(***************************************************************************)
\* building blocks of the piecewise inputs: '#', separators, hex runs, tokens
Pieces ==
    { <<"#">>, <<" ">>, <<"g">>, <<"f">>, <<"f", "f", "f">>,
      <<"#", "f", "f", "f">>, <<"#", "F", "F", "F">> }

\* every concatenation of at most n pieces
RECURSIVE PieceTexts(_)
PieceTexts(n) ==
    IF n = 0 THEN {<<>>}
    ELSE LET prev == PieceTexts(n - 1) IN
         prev \cup {t \o p : t \in prev, p \in Pieces}

\* the hex digits the sandwich tokens are written with
TokenDigits == {"f", "F"}

\* single characters that are no hex digit, '#' included
NonHexChars == {" ", "g", ";", "#"}

\* the lengths of a colour's digit run
ValidLengths == {3, 4, 6, 8}

\* '#' followed by n digits, for every n of ValidLengths
ValidTokens ==
    UNION { {<<"#">> \o d : d \in [1..n -> TokenDigits]} : n \in ValidLengths }

\* x + t + y
SandwichTexts ==
    { <<x>> \o t \o <<y>> : x \in NonHexChars, t \in ValidTokens, y \in NonHexChars }

\* tokens of the space-separated lists: valid ones and a 5-digit run
SampleTokens ==
    { <<"#", "f", "f", "f">>, <<"#", "F", "F", "F">>, <<"#", "f", "f", "f", "f">>,
      <<"#", "f", "f", "f", "f", "f">>, <<"#", "f", "f", "f", "f", "f", "f">>,
      <<"#", "f", "f", "f", "f", "f", "f", "f", "f">> }

\* every list of at most n sample tokens, joined by single spaces
TokenListTexts(n) ==
    UNION { {JoinWith(<<" ">>, l) : l \in [1..m -> SampleTokens]} : m \in 0..n }

\* the k-th 4-digit token over 'f' and 'F' (k = 1..16, read as a binary numeral)
PaletteToken(k) ==
    <<"#">> \o [j \in 1..4 |->
                   IF ((k - 1) \div (2 ^ (j - 1))) % 2 = 0 THEN "f" ELSE "F"]

\* the first n palette tokens, joined by ';'
PaletteTexts(n) ==
    { JoinWith(<<";">>, [k \in 1..m |-> PaletteToken(k)]) : m \in 1..n }

Inputs ==
    PieceTexts(MaxPieces) \cup SandwichTexts \cup TokenListTexts(MaxTokens)
        \cup PaletteTexts(MaxPalette)

(***************************************************************************)
(* The extractor / reporter pipeline on one input text.                    *)
(***************************************************************************)
None == <<>>

NoArgs == [input |-> None, url |-> None, file |-> None, run_tests |-> FALSE]

MainIdle ==
    /\ args = NoArgs
    /\ source_text = <<>>
    /\ stdout = <<>>
    /\ calls = <<>>
    /\ tests_failed = 0
    /\ exit_code = -1
    /\ mpc = "idle"

mainVars == <<args, source_text, stdout, calls, tests_failed, exit_code, mpc>>

Init ==
    /\ text \in Inputs
    /\ matches = <<>>
    /\ found = <<>>
    /\ report = <<>>
    /\ pc = "start"
    /\ MainIdle

\* found = find_hex_colors(text)
Extract ==
    /\ pc = "start"
    /\ matches' = HEX_REGEX_findall(text)
    /\ found' = find_hex_colors(text)
    /\ pc' = "extracted"
    /\ UNCHANGED <<text, report>>
    /\ UNCHANGED mainVars

\* report = generate_report(found)
Report ==
    /\ pc = "extracted"
    /\ report' = generate_report(found)
    /\ pc' = "reported"
    /\ UNCHANGED <<text, matches, found>>
    /\ UNCHANGED mainVars

Next == Extract \/ Report

Spec == Init /\ [][Next]_vars

(***************************************************************************)
(* The self-tests (class TestHexFinder).                                   *)
(***************************************************************************)
\* the tests that only call find_hex_colors, in the order unittest runs them
TestCases ==
    <<
      \* test_duplicates_preserved_order (lines 121-123)
      [txt |->
          <<"#", "f", "f", "f", " ", "t", "e", "x", "t", " ", "#", "f", "f",
            "f", " ", "m", "o", "r", "e", " ", "#", "F", "F", "F", " ", "a",
            "n", "d", " ", "#", "1", "2", "3">>,
       expected |->
          << <<"#", "f", "f", "f">>, <<"#", "F", "F", "F">>, <<"#", "1", "2", "3">> >>],
      \* test_invalid (lines 117-119)
      [txt |->
          <<"#", "a", "b", " ", "#", "1", "2", "3", "4", "5", " ", "#", "1",
            "2", "3", "4", "z", " ", "#", "1", "2", "g", " ", "#", "a", "b",
            "c", "d", "5">>,
       expected |->
          << <<"#", "1", "2", "3", "4">> >>],
      \* test_short_and_long (lines 113-115)
      [txt |->
          <<"a", " ", "#", "1", "2", "3", " ", "b", " ", "#", "1", "2", "3",
            "4", "5", "6", " ", "c", " ", "#", "a", "b", "c", "d", " ", "d",
            " ", "#", "a", "b", "c", "d", "e", "f", "1", "2", " ", "e", " ",
            "#", "f", "f", "f">>,
       expected |->
          << <<"#", "1", "2", "3">>, <<"#", "1", "2", "3", "4", "5", "6">>, <<"#", "a", "b", "c", "d">>, <<"#", "a", "b", "c", "d", "e", "f", "1", "2">>, <<"#", "f", "f", "f">> >>],
      \* test_simple_3_hex (lines 107-108)
      [txt |->
          <<"c", "o", "l", "o", "r", ":", " ", "#", "f", "f", "f", ";">>,
       expected |->
          << <<"#", "f", "f", "f">> >>],
      \* test_simple_6_hex (lines 110-111)
      [txt |->
          <<"b", "o", "r", "d", "e", "r", ":", " ", "#", "1", "a", "2", "b",
            "3", "c", ";", " ", "b", "a", "c", "k", "g", "r", "o", "u", "n",
            "d", ":", "#", "A", "B", "C", "D", "E", "F", ";">>,
       expected |->
          << <<"#", "1", "a", "2", "b", "3", "c">>, <<"#", "A", "B", "C", "D", "E", "F">> >>]
    >>

\* what test_find_in_file writes to its temporary file (line 129)
FileTestContent ==
    <<"l", "i", "n", "e", "1", "\n", "c", "o", "l", "o", "r", ":", " ", "#",
      "0", "f", "0", ";", "\n", "l", "i", "n", "e", "3", " ", "#", "0", "0",
      "F", "F", "0", "0">>

\* what test_find_in_file expects (line 133)
FileTestExpected ==
    << <<"#", "0", "f", "0">>, <<"#", "0", "0", "F", "F", "0", "0">> >>

\* the name of the temporary file of test_find_in_file
TempFileName == <<"t", "m", "p">>

\* the tests of TestCases whose assertEqual fails
FailedTestCases ==
    {k \in 1..Len(TestCases) : find_hex_colors(TestCases[k].txt) # TestCases[k].expected}

(***************************************************************************)
(* main.                                                                   *)
(***************************************************************************)
Some(s) == <<s>>

\* texts given with --input
ArgTexts ==
    { <<>>, <<"#", "f", "f", "f">>,
      <<"x", " ", "#", "1", "2", "3", "4", "5", " ", "#", "a", "b", "c", "d">> }

\* values given with --url and --file
ArgUrls == { <<>>, <<"u">> }
ArgFiles == { <<>>, <<"p">> }

\* contents a URL, a file or stdin can deliver
SourceBodies ==
    { <<>>, <<"#", "0", "f", "0">>,
      <<"#", "A", "B", "C", " ", "#", "a", "b", "c", " ", "#", "A", "B", "C">> }

\* str(e) of an exception a loader raises
ErrorMessages == { <<"e", "r", "r">> }

\* a loader returns a text or raises an Exception
LoadOutcomes ==
    {[ok |-> TRUE, value |-> b] : b \in SourceBodies}
        \cup {[ok |-> FALSE, value |-> m] : m \in ErrorMessages}

\* 'Загружаю URL: ' (line 87)
UrlNotice ==
    <<"U+0417", "U+0430", "U+0433", "U+0440", "U+0443", "U+0436", "U+0430",
      "U+044E", " ", "U", "R", "L", ":", " ">>

\* 'Читаю файл: ' (line 90)
FileNotice ==
    <<"U+0427", "U+0438", "U+0442", "U+0430", "U+044E", " ", "U+0444",
      "U+0430", "U+0439", "U+043B", ":", " ">>

\* 'Введите текст (Ctrl-D / Ctrl-Z + Enter для конца ввода):' (line 94)
StdinPrompt ==
    <<"U+0412", "U+0432", "U+0435", "U+0434", "U+0438", "U+0442", "U+0435",
      " ", "U+0442", "U+0435", "U+043A", "U+0441", "U+0442", " ", "(", "C",
      "t", "r", "l", "-", "D", " ", "/", " ", "C", "t", "r", "l", "-", "Z",
      " ", "+", " ", "E", "n", "t", "e", "r", " ", "U+0434", "U+043B",
      "U+044F", " ", "U+043A", "U+043E", "U+043D", "U+0446", "U+0430", " ",
      "U+0432", "U+0432", "U+043E", "U+0434", "U+0430", ")", ":">>

\* 'Ошибка при получении данных: ' (line 97)
ErrorNotice ==
    <<"U+041E", "U+0448", "U+0438", "U+0431", "U+043A", "U+0430", " ",
      "U+043F", "U+0440", "U+0438", " ", "U+043F", "U+043E", "U+043B",
      "U+0443", "U+0447", "U+0435", "U+043D", "U+0438", "U+0438", " ",
      "U+0434", "U+0430", "U+043D", "U+043D", "U+044B", "U+0445", ":", " ">>

\* truth value of an optional string argument: None and '' are false
Truthy(o) == o # None /\ o[1] # <<>>

\* variant: the self-tests do not end main
SkipNormalNever == FALSE

\* if args.run_tests: ...; return  (lines 76-80)
SkipNormal == args.run_tests

\* variant: the except clause does not return
ReturnsOnErrorNot == FALSE

\* the return of the except clause (line 98)
ReturnsOnError == TRUE

Call(fn, arg, by, raised) == [fn |-> fn, arg |-> arg, by |-> by, raised |-> raised]

Printed(kind, body) == [kind |-> kind, body |-> body]

MainInit ==
    /\ args \in [input : {None} \cup {Some(t) : t \in ArgTexts},
                 url : {None} \cup {Some(u) : u \in ArgUrls},
                 file : {None} \cup {Some(f) : f \in ArgFiles},
                 run_tests : BOOLEAN]
    /\ source_text = <<>>
    /\ stdout = <<>>
    /\ calls = <<>>
    /\ tests_failed = 0
    /\ exit_code = -1
    /\ mpc = "parsed"
    /\ text = <<>>
    /\ matches = <<>>
    /\ found = <<>>
    /\ report = <<>>
    /\ pc = "start"

\* unittest.main(argv=[sys.argv[0]], exit=False); return  (lines 76-80).
\* The temporary file of test_find_in_file may fail to be created or written
\* (io_ok = FALSE); unittest records the exception as an error of that test.
MainRunTests ==
    /\ mpc = "parsed"
    /\ args.run_tests
    /\ \E io_ok \in BOOLEAN :
        LET pureCalls(lo, hi) ==
                [k \in 1..(hi - lo + 1) |->
                    Call("find_hex_colors", TestCases[lo + k - 1].txt, "tests", FALSE)]
            fileCalls ==
                IF io_ok
                THEN <<Call("read_file", TempFileName, "tests", FALSE),
                       Call("find_hex_colors", FileTestContent, "tests", FALSE)>>
                ELSE <<>>
            fileFailed ==
                ~io_ok \/ find_hex_colors(FileTestContent) # FileTestExpected
        IN /\ calls' = calls \o pureCalls(1, 1) \o fileCalls
                           \o pureCalls(2, Len(TestCases))
           /\ tests_failed' = Cardinality(FailedTestCases)
                                  + (IF fileFailed THEN 1 ELSE 0)
    /\ mpc' = "returned"
    /\ UNCHANGED <<text, matches, found, report, pc, args, source_text, stdout,
                   exit_code>>

\* Lines 82-102 once the branch of the if/elif chain is chosen: prints are the
\* notices printed before the load, loads the loader calls, o the outcome.
Process(prints, loads, o) ==
    LET out1 == stdout \o prints
        out2 == IF o.ok THEN out1
                ELSE Append(out1, Printed("error", ErrorNotice \o o.value))
        src == IF o.ok THEN o.value ELSE <<>>
    IN /\ source_text' = src
       /\ IF o.ok \/ ~ReturnsOnError
          THEN /\ text' = src
               /\ matches' = HEX_REGEX_findall(src)
               /\ found' = find_hex_colors(src)
               /\ report' = generate_report(found')
               /\ pc' = "reported"
               /\ calls' = calls \o loads
                               \o <<Call("find_hex_colors", src, "main", FALSE)>>
               /\ stdout' = Append(out2,
                                Printed("report", <<"\n">> \o report' \o <<"\n">>))
          ELSE /\ calls' = calls \o loads
               /\ stdout' = out2
               /\ UNCHANGED <<text, matches, found, report, pc>>
       /\ mpc' = "returned"
       /\ UNCHANGED <<args, tests_failed, exit_code>>

\* if args.input: source_text = args.input  (lines 84-85)
MainInput ==
    /\ mpc = "parsed"
    /\ ~SkipNormal
    /\ Truthy(args.input)
    /\ Process(<<>>, <<>>, [ok |-> TRUE, value |-> args.input[1]])

\* elif args.url: print(...); source_text = fetch_url(args.url)  (lines 86-88)
MainUrl ==
    /\ mpc = "parsed"
    /\ ~SkipNormal
    /\ ~Truthy(args.input)
    /\ Truthy(args.url)
    /\ \E o \in LoadOutcomes :
           Process(<<Printed("notice", UrlNotice \o args.url[1])>>,
                   <<Call("fetch_url", args.url[1], "main", ~o.ok)>>, o)

\* elif args.file: print(...); source_text = read_file(args.file)  (lines 89-91)
MainFile ==
    /\ mpc = "parsed"
    /\ ~SkipNormal
    /\ ~Truthy(args.input)
    /\ ~Truthy(args.url)
    /\ Truthy(args.file)
    /\ \E o \in LoadOutcomes :
           Process(<<Printed("notice", FileNotice \o args.file[1])>>,
                   <<Call("read_file", args.file[1], "main", ~o.ok)>>, o)

\* else: print(...); source_text = sys.stdin.read()  (lines 92-95)
MainStdin ==
    /\ mpc = "parsed"
    /\ ~SkipNormal
    /\ ~Truthy(args.input)
    /\ ~Truthy(args.url)
    /\ ~Truthy(args.file)
    /\ \E o \in LoadOutcomes :
           Process(<<Printed("notice", StdinPrompt)>>,
                   <<Call("stdin.read", <<>>, "main", ~o.ok)>>, o)

\* main() has returned None: the interpreter ends with status 0 (lines 142-143)
Exit ==
    /\ mpc = "returned"
    /\ exit_code' = 0
    /\ mpc' = "exited"
    /\ UNCHANGED <<text, matches, found, report, pc, args, source_text, stdout,
                   calls, tests_failed>>

MainNext == MainRunTests \/ MainInput \/ MainUrl \/ MainFile \/ MainStdin \/ Exit

MainSpec == MainInit /\ [][MainNext]_vars

(***************************************************************************)
(* Reference definitions the extractor is compared with.                   *)
(***************************************************************************)
\* length of the maximal run of hex digits that starts at position from
RECURSIVE RunLength(_, _)
RunLength(s, from) ==
    IF from > Len(s) \/ s[from] \notin HexDigits THEN 0
    ELSE 1 + RunLength(s, from + 1)

\* a '#' at i whose neighbour on the left is neither a hex digit nor '#' and
\* whose maximal digit run has a valid length
RefStartsAt(s, i) ==
    /\ s[i] = "#"
    /\ (i > 1 => (s[i - 1] \notin HexDigits /\ s[i - 1] # "#"))
    /\ RunLength(s, i + 1) \in ValidLengths

\* left-to-right walk emitting '#' plus the whole run at every such '#'
RECURSIVE RefWalk(_, _)
RefWalk(s, i) ==
    IF i > Len(s) THEN <<>>
    ELSE (IF RefStartsAt(s, i)
          THEN <<SubSeq(s, i, i + RunLength(s, i + 1))>> ELSE <<>>)
         \o RefWalk(s, i + 1)

\* keep only the first occurrence of each distinct element, in order
RECURSIVE KeepFirst(_, _)
KeepFirst(sq, k) ==
    IF k > Len(sq) THEN <<>>
    ELSE (IF \E j \in 1..(k - 1) : sq[j] = sq[k] THEN <<>> ELSE <<sq[k]>>)
         \o KeepFirst(sq, k + 1)

\* index of the first occurrence of x in sq
FirstIndex(sq, x) ==
    CHOOSE k \in 1..Len(sq) : sq[k] = x /\ \A j \in 1..(k - 1) : sq[j] # x

\* positions of '#' in the text
HashPositions(s) == {i \in 1..Len(s) : s[i] = "#"}

\* x + t + y with t a valid token and x, y single characters that are no hex digit
IsSandwich(s) ==
    /\ Len(s) - 3 \in ValidLengths
    /\ s[1] \notin HexDigits
    /\ s[2] = "#"
    /\ \A k \in 3..(Len(s) - 1) : s[k] \in HexDigits
    /\ s[Len(s)] \notin HexDigits

\* the pieces of s between occurrences of the character c (str.split(c))
RECURSIVE SplitOn(_, _)
SplitOn(s, c) ==
    IF \A k \in 1..Len(s) : s[k] # c THEN <<s>>
    ELSE LET k == CHOOSE k \in 1..Len(s) : s[k] = c /\ \A j \in 1..(k - 1) : s[j] # c
         IN <<SubSeq(s, 1, k - 1)>> \o SplitOn(SubSeq(s, k + 1, Len(s)), c)

IsNumber(ds) == ds # <<>> /\ \A k \in 1..Len(ds) : \E d \in 1..10 : DecimalDigits[d] = ds[k]

\* the value of a decimal numeral (-1 when ds is no numeral)
RECURSIVE NumberOf(_)
NumberOf(ds) ==
    IF ~IsNumber(ds) THEN -1
    ELSE LET last == (CHOOSE d \in 1..10 : DecimalDigits[d] = ds[Len(ds)]) - 1 IN
         IF Len(ds) = 1 THEN last
         ELSE 10 * NumberOf(SubSeq(ds, 1, Len(ds) - 1)) + last

C3_SandwichAnySeparators ==
    (pc # "start" /\ IsSandwich(text))
        => found = <<SubSeq(text, 2, Len(text) - 1)>>

\* C3 amended: the same with x neither a hex digit nor '#' (y may be '#').
C3_SandwichNoLeadingHash ==
    (pc # "start" /\ IsSandwich(text) /\ text[1] # "#")
        => found = <<SubSeq(text, 2, Len(text) - 1)>>

\* an 8-digit token between a separator and a '#'
C3_Witness ==
    /\ pc = "extracted"
    /\ IsSandwich(text)
    /\ text[1] # "#"
    /\ text[Len(text)] = "#"
    /\ Len(text) = 11
    /\ found = <<SubSeq(text, 2, 10)>>

\* C4: the result has no two equal strings (exact comparison), holds exactly
\* the matched strings, and is ordered by strictly increasing index of first
\* occurrence among the matches.
C4_DistinctInFirstOccurrenceOrder ==
    pc # "start" =>
        /\ \A i, j \in 1..Len(found) : i # j => found[i] # found[j]
        /\ {found[i] : i \in 1..Len(found)} = {matches[k] : k \in 1..Len(matches)}
        /\ \A i, j \in 1..Len(found) :
               i < j => FirstIndex(matches, found[i]) < FirstIndex(matches, found[j])

\* '#fff', '#FFF', '#fff' were matched in this order: both spellings are kept
\* and the repeat is dropped
C4_Witness ==
    /\ pc = "extracted"
    /\ matches = << <<"#", "f", "f", "f">>, <<"#", "F", "F", "F">>,
                    <<"#", "f", "f", "f">> >>
    /\ found = << <<"#", "f", "f", "f">>, <<"#", "F", "F", "F">> >>

C10_ReportShape ==
    pc = "reported" =>
        LET lines == SplitOn(report, "\n") IN
        /\ lines[1] = HeaderLine
        /\ found = <<>> => (Len(lines) = 2 /\ lines[2] = NoneFoundLine)
        /\ found # <<>> =>
               /\ Len(lines) = 1 + Len(found)
               /\ \A i \in 1..Len(found) :
                      LET f == SplitOn(lines[i + 1], " ") IN
                      /\ Len(f) = 7
                      /\ f[3] = str_int(i) \o <<".">>
                      /\ NumberOf(SubSeq(f[3], 1, Len(f[3]) - 1)) = i
                      /\ f[4] = found[i]
                      /\ NumberOf(f[6]) = Len(found[i]) - 1

\* a report of ten or more tokens (two-digit line numbers)
C10_Witness ==
    /\ pc = "reported"
    /\ Len(found) >= 10
    /\ Len(SplitOn(report, "\n")) = 1 + Len(found)

\* a report of no token
C10_WitnessEmpty ==
    /\ pc = "reported"
    /\ found = <<>>
    /\ \E i \in HashPositions(text) : TRUE

(***************************************************************************)
(* Properties of main.                                                     *)
(***************************************************************************)
MainFinished == mpc \in {"returned", "exited"}

\* the calls of the log made by `by` to one of the functions fns
CallsOf(by, fns) == SelectSeq(calls, LAMBDA c : c.by = by /\ c.fn \in fns)

Loaders == {"fetch_url", "read_file", "stdin.read"}

\* the entries of stdout of one kind
PrintedOf(kind) == SelectSeq(stdout, LAMBDA l : l.kind = kind)

\* a loader call of main raised
LoadFailed == \E k \in 1..Len(calls) : calls[k].by = "main" /\ calls[k].raised

\* the embedded self-tests pass on the extractor whenever their file I/O works
SelfTestsPass ==
    /\ FailedTestCases = {}
    /\ find_hex_colors(FileTestContent) = FileTestExpected

\* C6: if obtaining the source text fails, exactly one error message is
\* printed, find_hex_colors is not invoked and no report is printed; a report
\* is printed only after the source text was obtained without error.
C6_LoadFailureAborts ==
    (MainFinished /\ ~args.run_tests) =>
        /\ LoadFailed =>
               /\ Len(PrintedOf("error")) = 1
               /\ CallsOf("main", {"find_hex_colors"}) = <<>>
               /\ PrintedOf("report") = <<>>
        /\ PrintedOf("report") # <<>> =>
               /\ ~LoadFailed
               /\ PrintedOf("error") = <<>>
               /\ Len(PrintedOf("report")) = 1
               /\ stdout[Len(stdout)].kind = "report"

\* fetch_url raised: the notice and the error message are all that was printed
C6_Witness ==
    /\ mpc = "exited"
    /\ \E k \in 1..Len(calls) : calls[k].fn = "fetch_url" /\ calls[k].raised
    /\ Len(stdout) = 2
    /\ stdout[2].kind = "error"

\* C7: every TEXT given with --input (the empty string included, whatever
\* --url and --file are) is handed to find_hex_colors and no other source is
\* read; a run that is not a test run reads exactly one source, and stdin only
\* when none of --input, --url, --file is given.
C7_InputTextIsTheSource ==
    (MainFinished /\ ~args.run_tests) =>
        /\ args.input # None =>
               /\ CallsOf("main", Loaders) = <<>>
               /\ source_text = args.input[1]
               /\ ~LoadFailed =>
                      CallsOf("main", {"find_hex_colors"})
                          = <<Call("find_hex_colors", args.input[1], "main", FALSE)>>
        /\ Len(CallsOf("main", Loaders)) = (IF args.input # None THEN 0 ELSE 1)
        /\ CallsOf("main", {"stdin.read"}) # <<>> =>
               (args.input = None /\ args.url = None /\ args.file = None)

\* C8: with --run-tests main runs the self-tests and returns: no source is
\* loaded, find_hex_colors is not called on user-supplied text and no report is
\* printed, whichever other flags are given.
C8_TestModeSkipsProcessing ==
    (MainFinished /\ args.run_tests) =>
        /\ CallsOf("tests", {"find_hex_colors"}) # <<>>
        /\ CallsOf("main", Loaders \cup {"find_hex_colors"}) = <<>>
        /\ source_text = <<>>
        /\ stdout = <<>>
        /\ report = <<>>

\* a test run that was also given --input, --url and --file
C8_Witness ==
    /\ mpc = "exited"
    /\ args.run_tests
    /\ Truthy(args.input)
    /\ Truthy(args.url)
    /\ Truthy(args.file)
    /\ Len(calls) >= Len(TestCases)

\* C9: in test mode the exit code is zero when every self-test passes and
\* non-zero when at least one fails.
C9_ExitCodeReflectsTests ==
    (mpc = "exited" /\ args.run_tests) => (exit_code = 0 <=> tests_failed = 0)

====
